---- MODULE Spec2Model ----
(***************************************************************************)
(* Model of src/ticket_monitor.py: the TicketMonitor process.  One process *)
(* loads the set of known ticket ids from the state file, sends a "bot     *)
(* started" message, and then polls the resale endpoint forever: fetch,    *)
(* diff against known_tickets, save, notify, sleep.  A KeyboardInterrupt   *)
(* ends the loop.  The environment chooses the responses of the endpoint,  *)
(* the outcome of every file write and of every message delivery, and the  *)
(* moment of the interrupt.                                                *)
(***************************************************************************)
EXTENDS Integers, Sequences, FiniteSets

\* ---------------------------------------------------------------- bounds
NumIds == 2          \* distinct registration ids the endpoint can list
MaxOffers == 2       \* registrations in one response
MaxRestarts == 1     \* times the process is started again after it ended
MaxAmount == 2500    \* largest total_amount, in cents, a registration carries

Ids == 1..NumIds

VARIABLES
    pc,             \* position of the process in __main__ / run / check_ticket_availability
    known_tickets,  \* self.known_tickets
    file,           \* content of CACHE_FILE
    new_tickets,    \* local new_tickets: one entry for each new ticket
    repeat,         \* environment: the endpoint answers the next request as it answered the last
    cur,            \* history: what the polling cycle that runs, or has just ended, did
    h1,             \* history: the polling cycle before cur
    h2,             \* history: the polling cycle before h1
    told,           \* history: ids loaded at startup or in a message the bot API accepted
    announced,      \* history: ids passed to send and available in every well-formed fetch since
    carried,        \* history: announced, as it was when the process was started again
    polled,         \* history: a well-formed fetch was made in this run before the running cycle
    startSent,      \* history: "bot started" messages passed to send in this run
    stopSent,       \* history: "bot stopped" messages passed to send in this run
    sendResult,     \* history: the send made by the last step, if any
    interrupted,    \* history: a KeyboardInterrupt was raised in this run
    unsent,         \* history: ids found new, not passed to send, and available in every fetch since
    restarts,       \* times the process was started again
    observe,        \* which histories are kept: see Observers
    total_amount,   \* resale.total_amount of the registration whose price is rendered
    rendered        \* the price as the message shows it

vars == << pc, known_tickets, file, new_tickets, repeat, cur, h1, h2, told,
           announced, carried, polled, startSent, stopSent, sendResult, interrupted,
           unsent, restarts, observe, total_amount, rendered >>

\* ------------------------------------------------------------ state file
Absent == [state |-> "absent", ids |-> {}]
Corrupt == [state |-> "corrupt", ids |-> {}]
Valid(s) == [state |-> "valid", ids |-> s]

\* ---------------------------------------------------- endpoint responses
\* One registration of registrations_for_sale.  shape tells which fields it
\* carries: "ok" all of them, "no_resale" lacks resale (or resale.available),
\* "no_title" lacks ticket.title (or resale.total_amount / resale.public_url).
Offer == [id : Ids, available : BOOLEAN, shape : {"ok", "no_resale", "no_title"}]

\* The registrations of one response.  A registration that raises KeyError
\* ends the loop of lines 104-115, which reads nothing after it, and one that
\* lacks a field the loop does not ask it for is read like a complete one: a
\* registration that lacks a field is therefore listed last.
OfferSeqs ==
    { s \in UNION { [1..n -> Offer] : n \in 0..MaxOffers } :
        \A i \in 1..Len(s) : i < Len(s) => s[i].shape = "ok" }

\* kind: "ok" a 2xx body with data.event.registrations_for_sale;
\* "request_error" requests.post raised; "http_error" raise_for_status raised;
\* "errors" the body has a top-level errors field; "no_data" the body lacks
\* data.event.registrations_for_sale.
FailKinds == {"request_error", "http_error", "errors", "no_data"}

Response ==
    [kind : {"ok"}, offers : OfferSeqs] \cup [kind : FailKinds, offers : {<< >>}]

NoResponse == [kind |-> "none", offers |-> << >>]

\* ids of the registrations of a response that are flagged available
AvailableIds(offers) ==
    { offers[i].id : i \in { j \in 1..Len(offers) : offers[j].available } }

\* ids of the registrations of a response that are flagged not available
UnavailableIds(offers) ==
    { offers[i].id : i \in { j \in 1..Len(offers) : ~offers[j].available } }

\* positions of the registrations of a response that are flagged not available
UnavailablePos(offers) == { j \in 1..Len(offers) : ~offers[j].available }

\* lines 111-115: the entry of new_tickets built from the registration at
\* position i.  The registration's title, price and url are stood for by its
\* id and its position in the response.
\* the response lists an id in two registrations flagged available
ListedTwice(offers) ==
    \E i, j \in 1..Len(offers) :
        /\ i < j
        /\ offers[i].id = offers[j].id
        /\ offers[i].available
        /\ offers[j].available

Entry(offers, i) == [id |-> offers[i].id, pos |-> i]

\* ids of the tickets of a new_tickets list
IdsOf(new) == { new[k].id : k \in 1..Len(new) }

\* positions in the response of the tickets of a new_tickets list
PosOf(new) == { new[k].pos : k \in 1..Len(new) }

\* ------------------------------------------- check_ticket_availability
\* the availability flag is not looked at
IsAvailableAlways(t) == TRUE

\* line 105: if ticket['resale']['available']
IsAvailable(t) == t.available

\* every available ticket is taken for a new one
IsNewAlways(known, id) == TRUE

\* line 109: if ticket_id not in self.known_tickets
IsNew(known, id) == id \notin known

\* the new id is not added
AddKnownNothing(known, id) == known

\* line 110: self.known_tickets.add(ticket_id)
AddKnown(known, id) == known \cup {id}

\* the tickets that disappeared are kept
ForgetNothing(known, current) == known

\* line 118: self.known_tickets.intersection_update(current_ticket_ids)
Forget(known, current) == known \cap current

\* lines 101-115: the loop over registrations_for_sale, from position i on.
\* err is TRUE when a registration raised KeyError; known is then
\* self.known_tickets as the loop left it.
RECURSIVE Loop(_, _, _, _, _)
Loop(offers, i, known, current, new) ==
    IF i > Len(offers)
    THEN [err |-> FALSE, known |-> known, current |-> current, new |-> new]
    ELSE LET t == offers[i] IN
         IF t.shape = "no_resale"
         THEN [err |-> TRUE, known |-> known, current |-> current, new |-> new]
         ELSE IF ~IsAvailable(t)
         THEN Loop(offers, i + 1, known, current, new)
         ELSE IF ~IsNew(known, t.id)
         THEN Loop(offers, i + 1, known, current \cup {t.id}, new)
         ELSE IF t.shape = "no_title"
         THEN [err |-> TRUE, known |-> AddKnown(known, t.id),
               current |-> current \cup {t.id}, new |-> new]
         ELSE Loop(offers, i + 1, AddKnown(known, t.id),
                   current \cup {t.id}, Append(new, Entry(offers, i)))

\* ------------------------------------------------ send_telegram_message
\* send_telegram_message without its try: a failed delivery raises.  The
\* except clause of lines 127-128 catches it in a polling cycle; nothing does
\* for the "bot started" and "bot stopped" messages.
AfterSendUncaught(kind, ok) ==
    CASE kind = "start" -> IF ok THEN "poll" ELSE "crashed"
      [] kind = "ticket" -> "sleep"
      [] kind = "stop" -> IF ok THEN "stopped" ELSE "crashed"

\* Position of the process after send_telegram_message returned: the except
\* clause of lines 59-60 swallows a failed delivery.
AfterSend(kind, ok) ==
    CASE kind = "start" -> "poll"
      [] kind = "ticket" -> "sleep"
      [] kind = "stop" -> "stopped"

NoSend == [kind |-> "none", ok |-> TRUE]

\* check_ticket_availability lines 122-123: the message for a new_tickets
\* list: the header with the number of new tickets, then one bullet for each
\* entry of the list
Message(new) == [count |-> Len(new), bullets |-> new]

\* ------------------------------------------------------------- the price
\* no price rendered yet
NoPrice == [euros |-> 0, digits |-> << >>]

\* The quotient of line 113 is a float: the double nearest to n / 100.  It
\* is n / 100 itself when that is a whole number, and otherwise differs from
\* it by less than one part in 2^53.  Prices are counted in 1/10000 euro
\* here, and the error is taken to be as large as one such unit, which is
\* more than the double's error for every n the model draws.
RoundingErrors(n) == IF n % 100 = 0 THEN {0} ELSE {-1, 0, 1}

\* line 113 with // in place of /
PriceFloorDiv(n, e) == (n \div 100) * 10000

\* line 113: total_amount / 100, in 1/10000 euro, with rounding error e
Price(n, e) == n * 100 + e

\* line 122, the format :.2f: the value (in 1/10000 euro) rounded to the
\* nearest cent, a tie to the even cent, written as the euros and two
\* digits of cents
Format2f(v) ==
    LET q == v \div 100
        r == v % 100
        cents == IF r > 50 \/ (r = 50 /\ q % 2 = 1) THEN q + 1 ELSE q
    IN [euros |-> cents \div 100,
        digits |-> << (cents % 100) \div 10, cents % 10 >>]


\* ------------------------------------------------------ cycle histories
\* outcome: "running"; "fetch_fail" the request or the body failed;
\* "schema_fail" a registration raised KeyError; "save_fail" the write of
\* the state file raised; "ok" the try block ran to its end; "interrupted".
\* before: known_tickets when the cycle began; avail: the ids the response
\* flags available (well-formed responses only); sent: the ids of the tickets
\* in the message passed to send; sends: calls of send; saves: calls of
\* save_known_tickets; same: the response is the one of the cycle before,
\* which ran to its end; first: no well-formed fetch was made in this run
\* before this cycle; unavail, unavailPos: the ids and the positions of the
\* registrations the response flags not available; count: the number in the
\* header of the message passed to send; dup: the response lists an id in
\* two registrations flagged available.
NoCycle == [outcome |-> "none", before |-> {}, avail |-> {}, sent |-> {},
            sends |-> 0, saves |-> 0, same |-> FALSE, first |-> FALSE,
            unavail |-> {}, unavailPos |-> {}, count |-> 0, dup |-> FALSE]

\* the cycle ran to the end of the try block of check_ticket_availability
Completed(c) == c.outcome = "ok"

\* the cycle's fetch returned a well-formed response
WellFormed(c) == c.outcome \in {"ok", "save_fail"}

\* the cycle's fetch failed
FetchFailed(c) == c.outcome \in {"fetch_fail", "schema_fail"}

\* The histories are kept one group at a time: "cycles" keeps h1 and h2,
\* "delivery" keeps told, "restart" keeps announced, carried and polled,
\* "repeat" lets the endpoint repeat its answer, "offers" keeps unavail and
\* unavailPos and dup, "lost" keeps unsent.  The process does the same under
\* each.
Observers == {"cycles", "delivery", "restart", "repeat", "offers", "lost"}

\* ------------------------------------------------------------------ Init
Init ==
    /\ pc = "load"
    /\ known_tickets = {}
    /\ file \in {Absent} \cup { Valid(s) : s \in SUBSET Ids }
    /\ new_tickets = << >>
    /\ repeat = NoResponse
    /\ cur = NoCycle
    /\ h1 = NoCycle
    /\ h2 = NoCycle
    /\ told = {}
    /\ announced = {}
    /\ carried = {}
    /\ polled = FALSE
    /\ startSent = 0
    /\ stopSent = 0
    /\ sendResult = NoSend
    /\ interrupted = FALSE
    /\ unsent = {}
    /\ restarts = 0
    /\ observe \in Observers
    /\ total_amount = 0
    /\ rendered = NoPrice

\* load_known_tickets that returns the empty set whatever the file holds
LoadedNothing(f) == {}

\* load_known_tickets lines 40-43: the set the file holds, the empty set when
\* there is no file
Loaded(f) == f.ids

\* except clauses that catch a failed request only: a KeyError of the loop and
\* an OSError of the save end the process
AfterErrorRequestOnly(kind) == IF kind = "fetch" THEN "sleep" ELSE "crashed"

\* Position after an exception in check_ticket_availability: the except
\* clause of lines 127-128 logs it and the function returns to line 137.
\* kind: "fetch" the request or the body, "schema" a registration, "save" the
\* write of the state file.
AfterError(kind) == "sleep"

\* an append log: the ids the file held stay in it
WrittenAppended(f, known) == Valid(f.ids \cup known)

\* save_known_tickets lines 46-47: the file holds the ids of known_tickets
\* and nothing else
Written(f, known) == Valid(known)

\* --------------------------------------------------------------- actions
\* __main__ line 148, __init__ and load_known_tickets: a file that does not
\* hold a JSON list makes json.load raise, and nothing catches it.
load_known_tickets ==
    /\ pc = "load"
    /\ IF file.state = "corrupt"
       THEN /\ pc' = "crashed"
            /\ UNCHANGED << known_tickets, told >>
       ELSE /\ pc' = "start"
            /\ known_tickets' = Loaded(file)
            /\ told' = IF observe = "delivery" THEN told \cup Loaded(file) ELSE told
    /\ sendResult' = NoSend
    /\ UNCHANGED << file, new_tickets, repeat, cur, h1, h2, announced, carried,
                    polled, startSent, stopSent, interrupted, unsent, restarts,
                    observe, total_amount, rendered >>

\* run lines 131-132: the "bot started" message
SendStarted ==
    /\ pc = "start"
    /\ \E ok \in BOOLEAN :
         /\ sendResult' = [kind |-> "start", ok |-> ok]
         /\ pc' = AfterSend("start", ok)
    /\ startSent' = IF startSent < 2 THEN startSent + 1 ELSE startSent
    /\ UNCHANGED << known_tickets, file, new_tickets, repeat, cur, h1, h2, told,
                    announced, carried, polled, stopSent, interrupted, unsent,
                    restarts, observe, total_amount, rendered >>

\* the record of a cycle that begins now
StartCycle ==
    [NoCycle EXCEPT !.outcome = "running", !.before = known_tickets,
                    !.same = (repeat # NoResponse), !.first = ~polled]

\* check_ticket_availability lines 92-118: the request, the checks of the
\* body, the loop and intersection_update.  A failure ends the cycle in the
\* except clause of lines 127-128, or at the return of line 98.
Fetch ==
    /\ pc = "poll"
    /\ \E r \in (IF repeat # NoResponse THEN {repeat} ELSE Response) :
         /\ repeat' \in (IF observe = "repeat" THEN {NoResponse, r} ELSE {NoResponse})
         /\ IF r.kind # "ok"
            THEN /\ cur' = [StartCycle EXCEPT !.outcome = "fetch_fail"]
                 /\ pc' = IF r.kind = "errors" THEN "sleep" ELSE AfterError("fetch")
                 /\ UNCHANGED << known_tickets, new_tickets, announced, polled, unsent >>
            ELSE LET res == Loop(r.offers, 1, known_tickets, {}, << >>) IN
                 IF res.err
                 THEN /\ cur' = [StartCycle EXCEPT !.outcome = "schema_fail"]
                      /\ known_tickets' = res.known
                      /\ pc' = AfterError("schema")
                      /\ unsent' = IF observe = "lost"
                                    THEN (unsent \cap res.current) \cup IdsOf(res.new)
                                    ELSE unsent
                      /\ UNCHANGED << new_tickets, announced, polled >>
                 ELSE /\ cur' = [StartCycle EXCEPT
                                  !.avail = AvailableIds(r.offers),
                                  !.unavail = IF observe = "offers"
                                              THEN UnavailableIds(r.offers) ELSE {},
                                  !.unavailPos = IF observe = "offers"
                                                 THEN UnavailablePos(r.offers) ELSE {},
                                  !.dup = (observe = "offers" /\ ListedTwice(r.offers))]
                      /\ known_tickets' = Forget(res.known, res.current)
                      /\ new_tickets' = res.new
                      /\ announced' = announced \cap AvailableIds(r.offers)
                      /\ polled' = (observe = "restart")
                      /\ unsent' = IF observe = "lost"
                                    THEN (unsent \cap res.current) \cup IdsOf(res.new)
                                    ELSE unsent
                      /\ pc' = "save"
    /\ sendResult' = NoSend
    /\ UNCHANGED << file, h1, h2, told, carried, startSent, stopSent, interrupted,
                    restarts, observe, total_amount, rendered >>

\* a cycle with nothing to announce goes on to the next request at once
AfterSaveNoSleep(new) == IF new # << >> THEN "notify" ELSE "poll"

\* Position after save_known_tickets returned (line 121)
AfterSave(new) == IF new # << >> THEN "notify" ELSE "sleep"

\* check_ticket_availability line 119 and save_known_tickets: the write
\* succeeds, or open raises and the file is as before, or the write raises
\* after open truncated the file.  The except clause of lines 127-128
\* catches either error.
save_known_tickets ==
    /\ pc = "save"
    /\ \/ /\ file' = Written(file, known_tickets)
          /\ pc' = AfterSave(new_tickets)
          /\ cur' = [cur EXCEPT !.saves = 1,
                        !.outcome = IF new_tickets # << >> THEN "running" ELSE "ok"]
          /\ UNCHANGED new_tickets
       \/ /\ file' \in {file, Corrupt}
          /\ pc' = AfterError("save")
          /\ cur' = [cur EXCEPT !.saves = 1, !.outcome = "save_fail"]
          /\ new_tickets' = << >>
    /\ sendResult' = NoSend
    /\ UNCHANGED << known_tickets, repeat, h1, h2, told, announced, carried, polled,
                    startSent, stopSent, interrupted, unsent, restarts, observe,
                    total_amount, rendered >>

\* check_ticket_availability lines 121-125: one message for the new tickets
Notify ==
    /\ pc = "notify"
    /\ LET ids == IdsOf(new_tickets) IN
       /\ \E ok \in BOOLEAN :
            /\ sendResult' = [kind |-> "ticket", ok |-> ok]
            /\ pc' = AfterSend("ticket", ok)
            /\ told' = IF ok /\ observe = "delivery" THEN told \cup ids ELSE told
       /\ announced' = IF observe = "restart" THEN announced \cup ids ELSE announced
       /\ unsent' = unsent \ ids
       /\ cur' = [cur EXCEPT !.outcome = "ok", !.sends = 1, !.sent = ids,
                             !.count = Message(new_tickets).count]
    /\ new_tickets' = << >>
    /\ UNCHANGED << known_tickets, file, repeat, h1, h2, carried, polled, startSent,
                    stopSent, interrupted, restarts, observe, total_amount, rendered >>

\* what is kept of a cycle that ended: the cycles that ran to their end
Archive(c) ==
    IF Completed(c)
    THEN [NoCycle EXCEPT !.outcome = "ok", !.before = c.before, !.avail = c.avail,
                         !.sent = c.sent]
    ELSE NoCycle

\* the loop of run going back to line 132 instead of line 134
SleepThenStart ==
    /\ pc = "sleep"
    /\ pc' = "start"
    /\ cur' = NoCycle
    /\ h1' = IF observe = "cycles" THEN Archive(cur) ELSE h1
    /\ h2' = IF observe = "cycles" THEN h1 ELSE h2
    /\ repeat' = IF Completed(cur) THEN repeat ELSE NoResponse
    /\ sendResult' = NoSend
    /\ UNCHANGED << known_tickets, file, new_tickets, told, announced, carried,
                    polled, startSent, stopSent, interrupted, unsent, restarts,
                    observe, total_amount, rendered >>

\* run line 137: time.sleep(60), then the next iteration
Sleep ==
    /\ pc = "sleep"
    /\ pc' = "poll"
    /\ cur' = NoCycle
    /\ h1' = IF observe = "cycles" THEN Archive(cur) ELSE h1
    /\ h2' = IF observe = "cycles" THEN h1 ELSE h2
    /\ repeat' = IF Completed(cur) THEN repeat ELSE NoResponse
    /\ sendResult' = NoSend
    /\ UNCHANGED << known_tickets, file, new_tickets, told, announced, carried,
                    polled, startSent, stopSent, interrupted, unsent, restarts,
                    observe, total_amount, rendered >>

\* Position after a KeyboardInterrupt: the try of run (line 135) covers the
\* loop body only, so an interrupt before it ends the process.
AfterInterrupt(p) ==
    IF p \in {"poll", "save", "notify", "sleep"} THEN "stopping" ELSE "crashed"

\* A KeyboardInterrupt.  One that arrives in save_known_tickets finds the
\* file as before or truncated.
Interrupt ==
    /\ pc \in {"load", "start", "poll", "save", "notify", "sleep"}
    /\ pc' = AfterInterrupt(pc)
    /\ interrupted' = TRUE
    /\ file' \in (IF pc = "save" THEN {file, Corrupt} ELSE {file})
    /\ cur' = IF cur.outcome = "running" THEN [cur EXCEPT !.outcome = "interrupted"] ELSE cur
    /\ new_tickets' = << >>
    /\ repeat' = NoResponse
    /\ sendResult' = NoSend
    /\ UNCHANGED << known_tickets, h1, h2, told, announced, carried, polled, startSent,
                    stopSent, unsent, restarts, observe, total_amount, rendered >>

\* run lines 139-141: the "bot stopped" message, then break
SendStopped ==
    /\ pc = "stopping"
    /\ \E ok \in BOOLEAN :
         /\ sendResult' = [kind |-> "stop", ok |-> ok]
         /\ pc' = AfterSend("stop", ok)
    /\ stopSent' = IF stopSent < 2 THEN stopSent + 1 ELSE stopSent
    /\ UNCHANGED << known_tickets, file, new_tickets, repeat, cur, h1, h2, told,
                    announced, carried, polled, startSent, interrupted, unsent,
                    restarts, observe, total_amount, rendered >>

\* The process is started again (__main__ lines 147-149) after it ended; the
\* state file is as the ended process left it.
Restart ==
    /\ pc \in {"stopped", "crashed"}
    /\ restarts < MaxRestarts
    /\ restarts' = restarts + 1
    /\ pc' = "load"
    /\ known_tickets' = {}
    /\ cur' = NoCycle
    /\ h1' = NoCycle
    /\ h2' = NoCycle
    /\ carried' = announced
    /\ polled' = FALSE
    /\ startSent' = 0
    /\ stopSent' = 0
    /\ sendResult' = NoSend
    /\ interrupted' = FALSE
    /\ unsent' = {}
    /\ UNCHANGED << file, new_tickets, repeat, told, announced, observe,
                    total_amount, rendered >>

Next ==
    \/ load_known_tickets
    \/ SendStarted
    \/ Fetch
    \/ save_known_tickets
    \/ Notify
    \/ Sleep
    \/ Interrupt
    \/ SendStopped
    \/ Restart

Spec == Init /\ [][Next]_vars

\* ----------------------------------------------- the price of one ticket
\* a registration with any total_amount up to MaxAmount reaches line 113
InitPrice ==
    /\ pc = "price"
    /\ known_tickets = {}
    /\ file = Absent
    /\ new_tickets = << >>
    /\ repeat = NoResponse
    /\ cur = NoCycle
    /\ h1 = NoCycle
    /\ h2 = NoCycle
    /\ told = {}
    /\ announced = {}
    /\ carried = {}
    /\ polled = FALSE
    /\ startSent = 0
    /\ stopSent = 0
    /\ sendResult = NoSend
    /\ interrupted = FALSE
    /\ unsent = {}
    /\ restarts = 0
    /\ observe = "cycles"
    /\ total_amount \in 0..MaxAmount
    /\ rendered = NoPrice

\* lines 113 and 122: the price is computed, then formatted
RenderPrice ==
    /\ pc = "price"
    /\ pc' = "rendered"
    /\ \E e \in RoundingErrors(total_amount) :
         rendered' = Format2f(Price(total_amount, e))
    /\ UNCHANGED << known_tickets, file, new_tickets, repeat, cur, h1, h2, told,
                    announced, carried, polled, startSent, stopSent, sendResult,
                    interrupted, unsent, restarts, observe, total_amount >>

NextPrice == RenderPrice

SpecPrice == InitPrice /\ [][NextPrice]_vars

\* ---------------------------------------------------------------- claims
\* the loop and intersection_update of the running cycle are done
PastLoop == pc \in {"save", "notify"} \/ WellFormed(cur)

\* C1: after a polling cycle whose fetch returned a well-formed response,
\* known_tickets is exactly the set of the ids the response flags available.
C1_SeenSetIsAvailableIds == WellFormed(cur) => known_tickets = cur.avail

\* a cycle ended that began with a non-empty known_tickets and fetched no
\* available ticket
C1_Witness ==
    /\ pc = "sleep"
    /\ Completed(cur)
    /\ cur.before # {}
    /\ cur.avail = {}
    /\ known_tickets = {}

\* C2: a polling cycle whose fetch fails leaves known_tickets as it was when
\* the cycle began and does not call send.
C2_FailedFetchChangesNothing ==
    FetchFailed(cur) => (known_tickets = cur.before /\ cur.sends = 0)

\* C3: a ticket that is new and available in one cycle, absent in the next and
\* available again in the third, the three cycles running to their end, is in
\* the message of the first and of the third and not in one of the second.
C3_Reappearance ==
    \A x \in Ids :
        ( /\ Completed(h2) /\ Completed(h1) /\ Completed(cur)
          /\ x \notin h2.before /\ x \in h2.avail
          /\ x \notin h1.avail
          /\ x \in cur.avail )
        => (x \in h2.sent /\ x \notin h1.sent /\ x \in cur.sent)

\* the third of three such cycles has ended
C3_Witness ==
    /\ pc = "sleep"
    /\ \E x \in Ids :
         /\ Completed(h2) /\ Completed(h1) /\ Completed(cur)
         /\ x \notin h2.before /\ x \in h2.avail
         /\ x \notin h1.avail
         /\ x \in cur.avail

\* C4: a cycle that runs to its end on the response of the cycle before, which
\* ran to its end too, calls send zero times and leaves known_tickets as the
\* cycle before left it.
C4_Idempotence ==
    (cur.same /\ Completed(cur)) => (cur.sends = 0 /\ known_tickets = cur.before)

\* such a second cycle has ended, with tickets available
C4_Witness ==
    /\ pc = "sleep"
    /\ cur.same
    /\ Completed(cur)
    /\ cur.avail # {}

\* C5 as stated: no registration flagged not available is in the message, and
\* the id of none is in known_tickets once the cycle has diffed.
C5_UnavailableNeverKnown ==
    (observe = "offers" /\ PastLoop)
    => ( /\ PosOf(new_tickets) \cap cur.unavailPos = {}
         /\ cur.unavail \cap known_tickets = {} )

\* C5, amended: no registration flagged not available is in the message, and
\* the id of none is in known_tickets once the cycle has diffed, unless the
\* same response lists that id in a registration flagged available as well.
C5_UnavailableNeverKnownUnlessListedAvailable ==
    (observe = "offers" /\ PastLoop)
    => ( /\ PosOf(new_tickets) \cap cur.unavailPos = {}
         /\ (cur.unavail \ cur.avail) \cap known_tickets = {} )

\* a cycle is about to notify, and its response flags not available a ticket
\* that was in known_tickets
C5_Witness ==
    /\ observe = "offers"
    /\ pc = "notify"
    /\ cur.unavail \cap cur.before # {}
    /\ cur.unavail \cap cur.avail = {}

\* C6: at the end of a polling cycle whose fetch returned a well-formed
\* response, whether or not its save and its send succeeded, every id in
\* known_tickets was loaded from the state file at startup or was in a message
\* the bot API accepted.
C6_SeenSetWasAnnounced ==
    (observe = "delivery" /\ pc = "sleep" /\ WellFormed(cur)) => known_tickets \subseteq told

\* C7: a send that fails leaves the process where a send that succeeds does:
\* at the first poll after the "bot started" message, at the sleep after a
\* ticket message, stopped after the "bot stopped" message; and the sleep
\* after a failed ticket message is followed by the next poll, unless an
\* interrupt stops the run.
C7_FailedSendNeverAborts ==
    [][ /\ (sendResult'.kind = "start" /\ ~sendResult'.ok) => pc' = "poll"
        /\ (sendResult'.kind = "ticket" /\ ~sendResult'.ok) => pc' = "sleep"
        /\ (sendResult'.kind = "stop" /\ ~sendResult'.ok) => pc' = "stopped"
        /\ (sendResult.kind = "ticket" /\ ~sendResult.ok)
             => pc' \in {"poll", "stopping"} ]_vars

\* a ticket message was not delivered and the process sleeps
C7_Witness ==
    /\ sendResult.kind = "ticket"
    /\ ~sendResult.ok
    /\ pc = "sleep"
    /\ Completed(cur)

\* C8: after an interrupt the process sends the "bot stopped" message once
\* and is stopped.
C8_InterruptSendsStopped ==
    interrupted
    => ( /\ pc \in {"stopping", "stopped"}
         /\ stopSent = IF pc = "stopped" THEN 1 ELSE 0 )

\* C9: in the first cycle with a well-formed fetch after the process was
\* started again, no ticket is in the message that was announced before the
\* process ended and has been available in every well-formed fetch since.
C9_NoReannounceAfterRestart ==
    (restarts > 0 /\ cur.first)
    => (IdsOf(new_tickets) \cup cur.sent) \cap carried = {}

\* such a cycle has ended: it announced a ticket, and another ticket that was
\* announced before the process ended is still available
C9_Witness ==
    /\ restarts > 0
    /\ cur.first
    /\ Completed(cur)
    /\ cur.sent # {}
    /\ carried \cap cur.avail # {}

\* C10: the "bot started" message is sent after the load, once, before the
\* first fetch, and never again in the run.
C10_StartedOnceBeforeFirstFetch ==
    /\ startSent <= 1
    /\ pc = "load" => startSent = 0
    /\ pc \in {"poll", "save", "notify", "sleep", "stopping", "stopped"} => startSent = 1
    /\ cur.outcome # "none" => startSent = 1

\* a second polling cycle has ended
C10_Witness ==
    /\ pc = "sleep"
    /\ Completed(h1)
    /\ Completed(cur)
    /\ startSent = 1

\* a step from a position in the loop that stays in the loop, or leaves it
\* after an interrupt
InLoopStep ==
    /\ \/ pc' \in {"poll", "save", "notify", "sleep"}
       \/ pc' = "stopping" /\ interrupted' /\ ~interrupted
    /\ ( /\ cur.outcome \in {"none", "running"}
         /\ cur'.outcome \in {"fetch_fail", "schema_fail", "save_fail"} )
       => pc' = "sleep"
    /\ pc = "sleep" => pc' \in {"sleep", "poll", "stopping"}

\* C11: no error of a polling cycle ends the loop.  From a position in the
\* loop the process goes to a position in the loop, or to the "bot stopped"
\* message after an interrupt; a cycle that ends in a failed fetch, a
\* malformed registration or a failed save ends at the sleep, and the sleep is
\* followed by the next poll.
C11_NoErrorEndsLoop ==
    [][(pc \in {"poll", "save", "notify", "sleep"}) => InLoopStep]_vars

\* a cycle ended in a failed save and the process sleeps
C11_Witness ==
    /\ pc = "sleep"
    /\ cur.outcome = "save_fail"
    /\ ~interrupted

\* C12: loading the state file never ends the process.  The runs modelled
\* have passed the check of the configuration (lines 31-32), so a process
\* that ended before its loop was ended by an interrupt.
C12_LoadNeverEndsProcess == pc = "crashed" => interrupted

\* C13: a polling cycle whose fetch returned a well-formed response calls
\* send once if an available id of the response was not in known_tickets when
\* the cycle began, and not at all otherwise; the message is about those ids
\* and no other, and its header counts them.
C13_OneMessageForNewTickets ==
    WellFormed(cur)
    => LET new == cur.avail \ cur.before IN
       /\ cur.sends = IF new # {} THEN 1 ELSE 0
       /\ cur.sent = new
       /\ cur.count = Cardinality(new)

\* C14: a polling cycle whose fetch returned a well-formed response calls
\* save_known_tickets once, when known_tickets has its additions and its
\* removals and before send is called; a save that succeeds leaves the file
\* with the ids of known_tickets and no other; a cycle whose fetch failed
\* does not save.
C14_SaveOnceAfterDiffBeforeSend ==
    /\ WellFormed(cur) => cur.saves = 1
    /\ FetchFailed(cur) => cur.saves = 0
    /\ pc = "save" => (cur.saves = 0 /\ cur.sends = 0 /\ known_tickets = cur.avail)
    /\ pc = "notify" => (cur.saves = 1 /\ cur.sends = 0 /\ file = Valid(known_tickets))
    /\ cur.sends = 1 => cur.saves = 1
    /\ Completed(cur) => file = Valid(cur.avail)

\* a cycle ran to its end that added an id, removed another and sent a
\* message
C14_Witness ==
    /\ pc = "sleep"
    /\ Completed(cur)
    /\ cur.before \ cur.avail # {}
    /\ cur.avail \ cur.before # {}
    /\ cur.sends = 1
    /\ file = Valid(known_tickets)

\* a step that keeps a sleep between two requests: the request is reached
\* from the "bot started" message or from the sleep only, a cycle goes from
\* its request through its save and its send to the sleep (or to the "bot
\* stopped" message), and when the sleep begins the cycle has ended and holds
\* no ticket to announce
SleepBetweenStep ==
    /\ (pc' = "poll" /\ pc # "poll") => pc \in {"start", "sleep"}
    /\ pc = "poll" => pc' \in {"poll", "save", "sleep", "stopping"}
    /\ pc = "save" => pc' \in {"save", "notify", "sleep", "stopping"}
    /\ pc = "notify" => pc' \in {"notify", "sleep", "stopping"}
    /\ (pc' = "sleep" /\ pc # "sleep")
         => (new_tickets' = << >> /\ cur'.outcome \notin {"none", "running"})

\* C15: every polling cycle, failed or not, is followed by the sleep before
\* the next request, and its fetch, save and send are done when the sleep
\* begins.
C15_SleepBetweenCycles == [][SleepBetweenStep]_vars

\* the process is at its third request: the first cycle ran to its end, the
\* second did not, and each was followed by the sleep
C15_Witness ==
    /\ pc = "poll"
    /\ Completed(h2)
    /\ h1 = NoCycle
    /\ cur = NoCycle

\* C16: the price of a registration whose total_amount is n cents is shown
\* as n div 100 euros and n mod 100 cents, the cents as two digits.
C16_PriceTwoDecimals ==
    pc = "rendered"
    => rendered = [euros |-> total_amount \div 100,
                   digits |-> << (total_amount % 100) \div 10, total_amount % 10 >>]

\* 1050 is shown as 10.50
C16_Witness ==
    /\ pc = "rendered"
    /\ total_amount = 1050
    /\ rendered = [euros |-> 10, digits |-> << 5, 0 >>]

\* C17: while the process sleeps between two cycles, a state file that holds
\* a list of ids holds the ids of known_tickets.
C17_FileIsSeenSetAtSleep ==
    (pc = "sleep" /\ file.state = "valid") => file.ids = known_tickets

\* C18: at the end of a cycle that ran to its end, no id is left that an
\* earlier fetch of this run found new, that has been available in every
\* fetch since, and that was never passed to send.
C18_NoLostTicket ==
    (observe = "lost" /\ pc = "sleep" /\ Completed(cur)) => unsent = {}

\* C19: when the response lists an id in two registrations flagged
\* available, the message names each new id once and its header counts the
\* new ids.
C19_ListedTwiceAnnouncedOnce ==
    /\ (cur.dup /\ pc = "notify")
         => /\ Len(new_tickets) = Cardinality(IdsOf(new_tickets))
            /\ IdsOf(new_tickets) = cur.avail \ cur.before
            /\ Message(new_tickets).count = Cardinality(cur.avail \ cur.before)
    /\ (cur.dup /\ Completed(cur) /\ cur.sends = 1)
         => /\ cur.count = Cardinality(cur.avail \ cur.before)
            /\ cur.sent = cur.avail \ cur.before

\* the message for a response that lists a new id twice was passed to send
C19_Witness ==
    /\ pc = "sleep"
    /\ cur.dup
    /\ Completed(cur)
    /\ cur.sends = 1
    /\ cur.count = 1
    /\ cur.sent = cur.avail

====
